---- MODULE Spec2Model ----
(***************************************************************************)
(* Model of src/handlers/guildMemberUpdate.ts: the guildMemberUpdate       *)
(* handler of discord-logs, which diffs the old and the new snapshot of a  *)
(* guild member and re-emits fine-grained events on the client.            *)
(*                                                                         *)
(* A member snapshot is a record of the fields the handler reads.  The     *)
(* role cache is a discord.js Collection (a Map: distinct keys, insertion  *)
(* order), modelled as a sequence of distinct role ids.  avatarURL() is a  *)
(* method of the snapshot; urlFails says that resolving this snapshot's    *)
(* avatar URL throws.                                                      *)
(***************************************************************************)
EXTENDS Integers, Sequences, FiniteSets

VARIABLES oldMember, newMember, emissions, emitted, pc, prev

vars == <<oldMember, newMember, emissions, emitted, pc, prev>>

\* ---- bounds ----
MaxRoles == 2      \* largest role cache of a snapshot

\* ---- values ----
\* null; a present timestamp, nickname, avatar hash or role id is a positive number
Null == 0

\* JS truthiness of a nullable field (null is falsy, a Date or a hash is truthy)
Truthy(v) == v # Null

\* Collection.has(id)
Has(cache, id) == \E i \in DOMAIN cache : cache[i] = id

\* The handler reads ids only through truthiness, === and Collection.has, so a
\* pair of snapshots stands for every pair that differs from it by a renaming
\* of the ids.  The old snapshot uses the ids 1, 2, ... in order; the new one
\* uses ids of the old snapshot or the next unused ones, in order of first use.
Fresh(v) == {Null} \cup (1..(v + 1))

Caches(ids) ==
  { c \in UNION { [1..n -> ids] : n \in 0..MaxRoles } :
      \A i, j \in DOMAIN c : i # j => c[i] # c[j] }

OldCaches == { [i \in 1..k |-> i] : k \in 0..MaxRoles }

NewCaches(k) ==
  { c \in Caches(1..(k + MaxRoles)) :
      \A i \in DOMAIN c :
         c[i] > k => c[i] = k + 1 + Cardinality({j \in 1..(i - 1) : c[j] > k}) }

\* oldMember: GuildMember | PartialGuildMember
OldMembers ==
  [ partial : BOOLEAN,
    premiumSince : {Null, 1},
    roles : OldCaches,
    nickname : {Null, 1},
    pending : BOOLEAN,
    avatar : {Null, 1},
    urlFails : BOOLEAN ]

\* newMember: GuildMember
NewMembers(old) ==
  [ partial : {FALSE},
    premiumSince : Fresh(old.premiumSince),
    roles : NewCaches(Len(old.roles)),
    nickname : Fresh(old.nickname),
    pending : BOOLEAN,
    avatar : Fresh(old.avatar),
    urlFails : BOOLEAN ]

\* ---- payload values of client.emit ----
OldRef == [kind |-> "oldMember", id |-> 0]
NewRef == [kind |-> "newMember", id |-> 0]
RoleRef(r) == [kind |-> "role", id |-> r]
Str(v) == IF v = Null THEN [kind |-> "null", id |-> 0] ELSE [kind |-> "string", id |-> v]

\* member.avatarURL(): null without a guild avatar, else the CDN URL of the hash
AvatarURL(m) == IF m.avatar = Null THEN [kind |-> "null", id |-> 0] ELSE [kind |-> "url", id |-> m.avatar]

\* client.emit(name, ...args)
Emit(s, name, args) == [s EXCEPT !.log = Append(@, [name |-> name, args |-> args])]

\* emitted = true
SetEmitted(s) == [s EXCEPT !.emitted = TRUE]

\* an exception leaves the function
Throw(s) == [s EXCEPT !.thrown = TRUE]

\* line 12
Entry == [log |-> <<>>, emitted |-> FALSE, thrown |-> FALSE]

\* variant: fires on any change of the boost timestamp
CheckBoost_AnyChange(s) ==
  IF oldMember.premiumSince # newMember.premiumSince
  THEN SetEmitted(Emit(s, "guildMemberBoost", <<NewRef>>))
  ELSE s

\* lines 24-27
CheckBoost(s) ==
  IF ~Truthy(oldMember.premiumSince) /\ Truthy(newMember.premiumSince)
  THEN SetEmitted(Emit(s, "guildMemberBoost", <<NewRef>>))
  ELSE s

\* lines 37-40
CheckUnboost(s) ==
  IF Truthy(oldMember.premiumSince) /\ ~Truthy(newMember.premiumSince)
  THEN SetEmitted(Emit(s, "guildMemberUnboost", <<NewRef>>))
  ELSE s

\* variant: iterates the old cache instead of the new one
addedRoles_FromOld == SelectSeq(oldMember.roles, LAMBDA r : ~Has(newMember.roles, r))

\* lines 41-44
addedRoles == SelectSeq(newMember.roles, LAMBDA r : ~Has(oldMember.roles, r))

\* variant: has(role) instead of has(role.id), which no key of the cache matches
removedRoles_HasObject == oldMember.roles

\* lines 59-62
removedRoles == SelectSeq(oldMember.roles, LAMBDA r : ~Has(newMember.roles, r))

\* roles.forEach((role) => { client.emit(name, oldMember, role); emitted = true; })
EmitEachRole(s, name, roles) ==
  [s EXCEPT !.log = @ \o [i \in 1..Len(roles) |-> [name |-> name, args |-> <<OldRef, RoleRef(roles[i])>>]],
            !.emitted = @ \/ Len(roles) > 0]

\* lines 55-58
CheckRoleAdd(s) == EmitEachRole(s, "guildMemberRoleAdd", addedRoles)

\* lines 73-76
CheckRoleRemove(s) == EmitEachRole(s, "guildMemberRoleRemove", removedRoles)

\* variant: the two nicknames of the payload swapped
CheckNickname_Swapped(s) ==
  IF oldMember.nickname # newMember.nickname
  THEN SetEmitted(Emit(s, "guildMemberNicknameUpdate",
                       <<NewRef, Str(newMember.nickname), Str(oldMember.nickname)>>))
  ELSE s

\* lines 88-91
CheckNickname(s) ==
  IF oldMember.nickname # newMember.nickname
  THEN SetEmitted(Emit(s, "guildMemberNicknameUpdate",
                       <<NewRef, Str(oldMember.nickname), Str(newMember.nickname)>>))
  ELSE s

\* variant: fires only when the member leaves the pending state
CheckEntered_OnlyPassed(s) ==
  IF oldMember.pending /\ ~newMember.pending
  THEN SetEmitted(Emit(s, "guildMemberEntered", <<NewRef>>))
  ELSE s

\* lines 102-105
CheckEntered(s) ==
  IF oldMember.pending # newMember.pending
  THEN SetEmitted(Emit(s, "guildMemberEntered", <<NewRef>>))
  ELSE s

\* lines 117-120: the argument newMember.avatarURL() is evaluated before emit is called
CheckAvatarAdd(s) ==
  IF ~Truthy(oldMember.avatar) /\ Truthy(newMember.avatar)
  THEN IF newMember.urlFails THEN Throw(s)
       ELSE SetEmitted(Emit(s, "guildMemberAvatarAdd", <<NewRef, AvatarURL(newMember)>>))
  ELSE s

\* variant: fires only when both avatars are present and differ
CheckAvatarUpdate_BothPresent(s) ==
  IF Truthy(oldMember.avatar) /\ Truthy(newMember.avatar) /\ oldMember.avatar # newMember.avatar
  THEN IF oldMember.urlFails \/ newMember.urlFails THEN Throw(s)
       ELSE SetEmitted(Emit(s, "guildMemberAvatarUpdate",
                            <<NewRef, AvatarURL(oldMember), AvatarURL(newMember)>>))
  ELSE s

\* lines 133-136: oldMember.avatarURL() then newMember.avatarURL(), then emit
CheckAvatarUpdate(s) ==
  IF oldMember.avatar # newMember.avatar
  THEN IF oldMember.urlFails \/ newMember.urlFails THEN Throw(s)
       ELSE SetEmitted(Emit(s, "guildMemberAvatarUpdate",
                            <<NewRef, AvatarURL(oldMember), AvatarURL(newMember)>>))
  ELSE s

\* lines 148-151
CheckAvatarRemove(s) ==
  IF Truthy(oldMember.avatar) /\ ~Truthy(newMember.avatar)
  THEN IF oldMember.urlFails THEN Throw(s)
       ELSE SetEmitted(Emit(s, "guildMemberAvatarRemove", <<NewRef, AvatarURL(oldMember)>>))
  ELSE s

\* variant: the nickname check moved before the role checks
FieldChecks_NicknameFirst(s) ==
  LET s1 == CheckBoost(s)
      s2 == CheckUnboost(s1)
      s3 == CheckNickname(s2)
      s4 == CheckRoleAdd(s3)
      s5 == CheckRoleRemove(s4)
      s6 == CheckEntered(s5)
      s7 == CheckAvatarAdd(s6)
      s8 == IF s7.thrown THEN s7 ELSE CheckAvatarUpdate(s7)
  IN IF s8.thrown THEN s8 ELSE CheckAvatarRemove(s8)

\* lines 24-151, the body of the if at line 14; a statement after a throwing
\* avatarURL() does not run
FieldChecks(s) ==
  LET s1 == CheckBoost(s)
      s2 == CheckUnboost(s1)
      s3 == CheckRoleAdd(s2)
      s4 == CheckRoleRemove(s3)
      s5 == CheckNickname(s4)
      s6 == CheckEntered(s5)
      s7 == CheckAvatarAdd(s6)
      s8 == IF s7.thrown THEN s7 ELSE CheckAvatarUpdate(s7)
  IN IF s8.thrown THEN s8 ELSE CheckAvatarRemove(s8)

\* variant: the field checks run on a partial old member too
IfNotPartial_Always(s) == FieldChecks(s)

\* line 14
IfNotPartial(s) == IF ~oldMember.partial THEN FieldChecks(s) ELSE s

\* variant: the fallback is not guarded by the emitted flag
Fallback_Unguarded(s) == Emit(s, "unhandledGuildMemberUpdate", <<OldRef, NewRef>>)

\* lines 164-166
Fallback(s) ==
  IF ~s.emitted
  THEN Emit(s, "unhandledGuildMemberUpdate", <<OldRef, NewRef>>)
  ELSE s

\* variant: the field checks wrapped in a try/catch that swallows the failure
Body_CatchAll ==
  LET s == IfNotPartial(Entry)
  IN Fallback([s EXCEPT !.thrown = FALSE])

\* lines 7-167
Body ==
  LET s == IfNotPartial(Entry)
  IN IF s.thrown THEN s ELSE Fallback(s)

Outcome(s) == IF s.thrown THEN "rejected" ELSE "returned"

Init ==
  /\ oldMember \in OldMembers
  /\ newMember \in NewMembers(oldMember)
  /\ emissions = <<>>
  /\ emitted = FALSE
  /\ pc = "idle"
  /\ prev = <<>>

\* The client delivers guildMemberUpdate(oldMember, newMember): the handler runs
\* to completion (it has no await) and its promise resolves or rejects.  prev
\* keeps what the delivery before this one emitted and how it ended.
handleGuildMemberUpdateEvent ==
  /\ prev' = IF pc = "idle" THEN <<>> ELSE <<[log |-> emissions, outcome |-> pc]>>
  /\ emissions' = Body.log
  /\ emitted' = Body.emitted
  /\ pc' = Outcome(Body)
  /\ UNCHANGED <<oldMember, newMember>>

Next == handleGuildMemberUpdateEvent

Spec == Init /\ [][Next]_vars

\* ---- observations on the emissions of the last invocation ----
Ended == pc # "idle"
Returned == pc = "returned"
Rejected == pc = "rejected"
Complete == ~oldMember.partial

Ev(name, args) == [name |-> name, args |-> args]
Times(e) == Cardinality({i \in DOMAIN emissions : emissions[i] = e})
Named(name) == Cardinality({i \in DOMAIN emissions : emissions[i].name = name})
Fired(name) == Named(name) > 0
Index(name) == CHOOSE i \in DOMAIN emissions : emissions[i].name = name
Position(cache, id) == CHOOSE i \in DOMAIN cache : cache[i] = id

SpecificNames ==
  {"guildMemberBoost", "guildMemberUnboost", "guildMemberRoleAdd", "guildMemberRoleRemove",
   "guildMemberNicknameUpdate", "guildMemberEntered", "guildMemberAvatarAdd",
   "guildMemberAvatarUpdate", "guildMemberAvatarRemove"}
Unhandled == "unhandledGuildMemberUpdate"
NumSpecific == Cardinality({i \in DOMAIN emissions : emissions[i].name \in SpecificNames})
ExactlyOneKind ==
  \/ NumSpecific >= 1 /\ Named(Unhandled) = 0
  \/ NumSpecific = 0 /\ Named(Unhandled) = 1

\* C1 as stated: every invocation that has ended, whatever the way it ended, has
\* emitted either one or more specific events or exactly one unhandled event.
C1_AsStated == Ended => ExactlyOneKind

\* C1 amended: an invocation that returns has emitted either one or more specific
\* events and no unhandled event, or exactly one unhandled event and no specific
\* event; an invocation that an avatar URL failure aborts never emits the
\* unhandled event (and may have emitted nothing at all).
C1_ExactlyOneKindOnReturn ==
  /\ Returned => ExactlyOneKind
  /\ Rejected => Named(Unhandled) = 0

C1_Witness == Returned /\ NumSpecific >= 3 /\ Named(Unhandled) = 0

\* C2: with a partial old member the invocation emits exactly
\* unhandledGuildMemberUpdate(oldMember, newMember) and nothing else,
\* whatever the fields of the two snapshots are.
C2_PartialOnlyUnhandled ==
  (Ended /\ oldMember.partial) =>
     /\ Returned
     /\ emissions = <<Ev(Unhandled, <<OldRef, NewRef>>)>>

C2_Witness ==
  /\ Returned /\ oldMember.partial
  /\ oldMember.nickname # newMember.nickname
  /\ oldMember.avatar # newMember.avatar
  /\ oldMember.pending # newMember.pending
  /\ Truthy(oldMember.premiumSince) # Truthy(newMember.premiumSince)
  /\ Len(oldMember.roles) # Len(newMember.roles)

RoleSet(m) == {m.roles[i] : i \in DOMAIN m.roles}
NoFieldDiffers ==
  /\ oldMember.premiumSince = newMember.premiumSince
  /\ RoleSet(oldMember) = RoleSet(newMember)
  /\ oldMember.nickname = newMember.nickname
  /\ oldMember.pending = newMember.pending
  /\ oldMember.avatar = newMember.avatar

\* C3: with a complete old member and no differing field (same boost timestamp,
\* same set of role ids, same nickname, pending flag and avatar) the invocation
\* emits exactly unhandledGuildMemberUpdate(oldMember, newMember).
C3_NoDiffOnlyUnhandled ==
  (Ended /\ Complete /\ NoFieldDiffers) =>
     /\ Returned
     /\ emissions = <<Ev(Unhandled, <<OldRef, NewRef>>)>>

C3_Witness ==
  /\ Returned /\ Complete /\ NoFieldDiffers
  /\ Len(oldMember.roles) = 2 /\ oldMember.roles # newMember.roles
  /\ Truthy(oldMember.avatar) /\ Truthy(oldMember.nickname)

\* every role id of the two caches, and one that is in neither
AnyRoleIds == 1..(2 * MaxRoles + 1)

\* C4: with a complete old member, guildMemberRoleAdd(oldMember, role) is emitted
\* once per role in the new cache and not in the old, guildMemberRoleRemove(
\* oldMember, role) once per role in the old cache and not in the new, neither
\* for any other role and neither with any other payload; and if a role was
\* added or removed the unhandled event is not emitted.
C4_RoleEvents ==
  (Ended /\ Complete) =>
     /\ \A r \in AnyRoleIds :
          /\ Times(Ev("guildMemberRoleAdd", <<OldRef, RoleRef(r)>>)) =
               IF r \in RoleSet(newMember) \ RoleSet(oldMember) THEN 1 ELSE 0
          /\ Times(Ev("guildMemberRoleRemove", <<OldRef, RoleRef(r)>>)) =
               IF r \in RoleSet(oldMember) \ RoleSet(newMember) THEN 1 ELSE 0
     /\ Named("guildMemberRoleAdd") = Cardinality(RoleSet(newMember) \ RoleSet(oldMember))
     /\ Named("guildMemberRoleRemove") = Cardinality(RoleSet(oldMember) \ RoleSet(newMember))
     /\ RoleSet(newMember) # RoleSet(oldMember) => Named(Unhandled) = 0

C4_Witness ==
  /\ Ended /\ Complete
  /\ Named("guildMemberRoleAdd") = 1 /\ Named("guildMemberRoleRemove") = 1
  /\ RoleSet(oldMember) \cap RoleSet(newMember) # {}

\* the place of an event in the fixed order of the checks
Rank(name) ==
  CASE name = "guildMemberBoost" -> 1
    [] name = "guildMemberUnboost" -> 2
    [] name = "guildMemberRoleAdd" -> 3
    [] name = "guildMemberRoleRemove" -> 4
    [] name = "guildMemberNicknameUpdate" -> 5
    [] name = "guildMemberEntered" -> 6
    [] name = "guildMemberAvatarAdd" -> 7
    [] name = "guildMemberAvatarUpdate" -> 8
    [] name = "guildMemberAvatarRemove" -> 9
    [] OTHER -> 10

IsRoleEvent(e) == e.name \in {"guildMemberRoleAdd", "guildMemberRoleRemove"}
CacheOf(e) == IF e.name = "guildMemberRoleAdd" THEN newMember.roles ELSE oldMember.roles

\* C5: the emissions of an invocation follow the fixed order boost, unboost,
\* role adds (in the order of the new cache), role removes (in the order of the
\* old cache), nickname, entered, avatar add, avatar update, avatar remove; the
\* unhandled event occurs only as the sole emission; and a second delivery of
\* the same (old, new) pair ends the same way with the same emissions.
C5_FixedOrder ==
  /\ Ended =>
       /\ \A i, j \in DOMAIN emissions : i < j =>
            /\ Rank(emissions[i].name) <= Rank(emissions[j].name)
            /\ Rank(emissions[i].name) = Rank(emissions[j].name) =>
                 /\ IsRoleEvent(emissions[i])
                 /\ Position(CacheOf(emissions[i]), emissions[i].args[2].id)
                      < Position(CacheOf(emissions[j]), emissions[j].args[2].id)
       /\ Fired(Unhandled) => Len(emissions) = 1
  /\ prev # <<>> => prev[1] = [log |-> emissions, outcome |-> pc]

C5_Witness ==
  /\ prev # <<>> /\ Returned
  /\ Named("guildMemberRoleAdd") = 2 /\ Named("guildMemberRoleRemove") = 2
  /\ Fired("guildMemberBoost") /\ Fired("guildMemberNicknameUpdate")
  /\ Fired("guildMemberEntered") /\ Fired("guildMemberAvatarUpdate")

AvatarUpdateEv == Ev("guildMemberAvatarUpdate", <<NewRef, AvatarURL(oldMember), AvatarURL(newMember)>>)
AvatarRules ==
  /\ Named("guildMemberAvatarUpdate") = Times(AvatarUpdateEv)
  /\ Times(AvatarUpdateEv) = IF oldMember.avatar # newMember.avatar THEN 1 ELSE 0
  /\ Fired("guildMemberAvatarRemove") =>
       /\ Fired("guildMemberAvatarUpdate")
       /\ Index("guildMemberAvatarUpdate") < Index("guildMemberAvatarRemove")
  /\ Fired("guildMemberAvatarAdd") =>
       /\ Fired("guildMemberAvatarUpdate")
       /\ Index("guildMemberAvatarAdd") < Index("guildMemberAvatarUpdate")
  /\ ~(Fired("guildMemberAvatarAdd") /\ Fired("guildMemberAvatarRemove"))

\* C6 as stated: in every invocation with a complete old member,
\* guildMemberAvatarUpdate is emitted exactly when the avatar ids differ, after
\* guildMemberAvatarAdd and before guildMemberAvatarRemove whenever one of them
\* is emitted.
C6_AsStated == (Ended /\ Complete) => AvatarRules

\* C6 amended: in every invocation with a complete old member that returns,
\* guildMemberAvatarUpdate(newMember, old URL, new URL) is emitted exactly when
\* the avatar ids differ; whenever guildMemberAvatarRemove is emitted the update
\* event precedes it, whenever guildMemberAvatarAdd is emitted the update event
\* follows it, and add and remove are never emitted together.  In an invocation
\* that an avatar URL failure aborts the update event is not emitted, the
\* remove event is not emitted, and the add event may stand alone.
C6_AvatarUpdateOnReturn ==
  /\ (Returned /\ Complete) => AvatarRules
  /\ Rejected =>
       /\ ~Fired("guildMemberAvatarUpdate")
       /\ ~Fired("guildMemberAvatarRemove")

C6_Witness ==
  /\ Returned /\ Complete
  /\ Fired("guildMemberAvatarRemove") /\ Fired("guildMemberAvatarUpdate")

\* C7: with a complete old member guildMemberBoost(newMember) is emitted once if
\* the old boost timestamp is absent and the new one present, and not otherwise;
\* guildMemberUnboost(newMember) once if the old one is present and the new one
\* absent, and not otherwise; never both; and with either, no unhandled event.
C7_BoostEvents ==
  (Ended /\ Complete) =>
     /\ Named("guildMemberBoost") = Times(Ev("guildMemberBoost", <<NewRef>>))
     /\ Named("guildMemberBoost") =
          IF oldMember.premiumSince = Null /\ newMember.premiumSince # Null THEN 1 ELSE 0
     /\ Named("guildMemberUnboost") = Times(Ev("guildMemberUnboost", <<NewRef>>))
     /\ Named("guildMemberUnboost") =
          IF oldMember.premiumSince # Null /\ newMember.premiumSince = Null THEN 1 ELSE 0
     /\ ~(Fired("guildMemberBoost") /\ Fired("guildMemberUnboost"))
     /\ (Fired("guildMemberBoost") \/ Fired("guildMemberUnboost")) => ~Fired(Unhandled)

C7_Witness == Ended /\ Complete /\ emissions = <<Ev("guildMemberUnboost", <<NewRef>>)>>

C9_NicknameEvent ==
  (Ended /\ Complete) =>
     /\ Named("guildMemberNicknameUpdate") =
          Times(Ev("guildMemberNicknameUpdate",
                   <<NewRef, Str(oldMember.nickname), Str(newMember.nickname)>>))
     /\ Named("guildMemberNicknameUpdate") =
          IF oldMember.nickname # newMember.nickname THEN 1 ELSE 0

C9_Witness ==
  /\ Ended /\ Complete /\ oldMember.nickname # Null /\ newMember.nickname = Null
  /\ Fired("guildMemberNicknameUpdate")

\* the avatar URL resolutions the checks 7, 8 and 9 ask for, and their failures
FailsInAdd == oldMember.avatar = Null /\ newMember.avatar # Null /\ newMember.urlFails
FailsInUpdate ==
  /\ ~FailsInAdd
  /\ oldMember.avatar # newMember.avatar
  /\ oldMember.urlFails \/ newMember.urlFails
FailsInRemove ==
  /\ ~FailsInAdd /\ ~FailsInUpdate
  /\ oldMember.avatar # Null /\ newMember.avatar = Null /\ oldMember.urlFails

\* C10: with a complete old member, a failing avatar URL resolution in check 7,
\* 8 or 9 leaves the invocation as a failure (it is not caught); the event whose
\* payload was being built is not emitted, no later check emits, the unhandled
\* event is not emitted, and what the earlier checks emitted stays emitted.
C10_FailurePropagates ==
  (Ended /\ Complete) =>
     /\ Rejected <=> (FailsInAdd \/ FailsInUpdate \/ FailsInRemove)
     /\ Rejected =>
          /\ ~Fired(Unhandled)
          /\ ~Fired("guildMemberAvatarUpdate") /\ ~Fired("guildMemberAvatarRemove")
          /\ FailsInAdd => ~Fired("guildMemberAvatarAdd")
          /\ FailsInUpdate =>
               Named("guildMemberAvatarAdd") =
                 IF oldMember.avatar = Null /\ newMember.avatar # Null THEN 1 ELSE 0
          /\ Fired("guildMemberBoost") <=>
               (oldMember.premiumSince = Null /\ newMember.premiumSince # Null)
          /\ Fired("guildMemberUnboost") <=>
               (oldMember.premiumSince # Null /\ newMember.premiumSince = Null)
          /\ Named("guildMemberRoleAdd") = Cardinality(RoleSet(newMember) \ RoleSet(oldMember))
          /\ Named("guildMemberRoleRemove") = Cardinality(RoleSet(oldMember) \ RoleSet(newMember))
          /\ Fired("guildMemberNicknameUpdate") <=> oldMember.nickname # newMember.nickname
          /\ Fired("guildMemberEntered") <=> oldMember.pending # newMember.pending

C10_Witness ==
  /\ Rejected /\ Complete /\ FailsInUpdate
  /\ Fired("guildMemberAvatarAdd") /\ Fired("guildMemberEntered")

TypeOK ==
  /\ pc \in {"idle", "returned", "rejected"}
  /\ Len(prev) <= 1
  /\ emitted \in BOOLEAN
====
